---- MODULE Spec2Model ----
(***************************************************************************)
(* Model of two components of hurl:                                        *)
(*   - the JSONPath evaluator  packages/hurl/src/jsonpath/eval.rs          *)
(*   - the top-level grammar   packages/hurl_core/src/parser/parsers.rs    *)
(* Query::eval is a state machine over its selector loop; the grammar      *)
(* rules are pure functions of the reader, applied by one action each.     *)
(***************************************************************************)
EXTENDS Integers, Sequences, FiniteSets, TLC

VARIABLES
    value,      \* Query::eval: the argument `value`
    query,      \* Query::eval: self.selectors
    idx,        \* Query::eval: number of selectors the for loop has taken
    result,     \* Query::eval: the local `result`
    returned,   \* Query::eval: Pending, or the Option the call returned
    buffer,     \* Reader: the input text, a sequence of characters
    state,      \* Reader: reader.state (cursor, pos)
    rule,       \* the grammar rule that was called last ("" before any call)
    start,      \* reader.state when that rule was called
    res         \* the ParseResult that call returned

evalVars == <<value, query, idx, result, returned>>
parseVars == <<buffer, state, rule, start, res>>
vars == <<value, query, idx, result, returned, buffer, state, rule, start, res>>

(***************************************************************************)
(* serde_json::Value.  An object is the sequence of its (key, value)       *)
(* members in iteration order, keys pairwise distinct.                     *)
(***************************************************************************)
Null == [t |-> "Null"]
Number(n) == [t |-> "Number", n |-> n]
String(s) == [t |-> "String", s |-> s]
Array(a) == [t |-> "Array", a |-> a]
Object(o) == [t |-> "Object", o |-> o]

None == [t |-> "None"]
Some(v) == [t |-> "Some", v |-> v]
Pending == [t |-> "Pending"]

\* JsonpathResult
SingleEntry(v) == [t |-> "SingleEntry", value |-> v]
Collection(vs) == [t |-> "Collection", values |-> vs]

\* Selector
NameChild(field) == [t |-> "NameChild", field |-> field]
Wildcard == [t |-> "Wildcard"]
ArrayWildcard == [t |-> "ArrayWildcard"]
ArrayIndex(indexes) == [t |-> "ArrayIndex", indexes |-> indexes]
ArraySlice(s, e) == [t |-> "ArraySlice", start |-> s, end |-> e]
RecursiveKey(key) == [t |-> "RecursiveKey", key |-> key]
RecursiveWildcard == [t |-> "RecursiveWildcard"]
Filter(predicate) == [t |-> "Filter", predicate |-> predicate]

\* Predicate { key, func } and PredicateFunc
Predicate(key, func) == [key |-> key, func |-> func]
KeyExist == [t |-> "KeyExist"]
Equal(n) == [t |-> "Equal", n |-> n]
GreaterThan(n) == [t |-> "GreaterThan", n |-> n]
GreaterThanOrEqual(n) == [t |-> "GreaterThanOrEqual", n |-> n]
LessThan(n) == [t |-> "LessThan", n |-> n]
LessThanOrEqual(n) == [t |-> "LessThanOrEqual", n |-> n]
EqualString(s) == [t |-> "EqualString", s |-> s]

(***************************************************************************)
(* Bounds of the evaluator's inputs.                                       *)
(***************************************************************************)
MaxNodes == 4       \* JSON values have at most this many nodes
MaxSel == 2         \* queries have at most this many selectors

Keys == <<"a", "b">>
Scalars == {Number(1), String("x")}

RECURSIVE ValuesOfSize(_), SeqsOfSize(_), MembersOfSize(_, _)
\* the JSON values with exactly n nodes
ValuesOfSize(n) ==
    (IF n = 1 THEN Scalars ELSE {})
        \cup {Array(s) : s \in SeqsOfSize(n - 1)}
        \cup {Object(o) : o \in MembersOfSize(n - 1, 1)}
\* the sequences of values with m nodes in all
SeqsOfSize(m) ==
    IF m = 0 THEN {<<>>}
    ELSE UNION {{<<v>> \o s : v \in ValuesOfSize(k), s \in SeqsOfSize(m - k)} :
                    k \in 1..m}
\* the member lists with m nodes in all, over the keys Keys[from..]
MembersOfSize(m, from) ==
    IF m = 0 THEN {<<>>}
    ELSE UNION {{<<[k |-> Keys[p[1]], v |-> v]>> \o s :
                    v \in ValuesOfSize(p[2]),
                    s \in MembersOfSize(m - p[2], p[1] + 1)} :
                p \in (from..Len(Keys)) \X (1..m)}

Values == UNION {ValuesOfSize(n) : n \in 1..MaxNodes}

(***************************************************************************)
(* serde_json::Value::get, by key and by index.                            *)
(***************************************************************************)
RECURSIVE get_member(_, _, _)
get_member(o, field, i) ==
    IF i > Len(o) THEN None
    ELSE IF o[i].k = field THEN Some(o[i].v)
    ELSE get_member(o, field, i + 1)

get_key(root, field) ==
    IF root.t = "Object" THEN get_member(root.o, field, 1) ELSE None

get_index(root, index) ==
    IF root.t = "Array" /\ index < Len(root.a) THEN Some(root.a[index + 1]) ELSE None

\* map.values()
RECURSIVE object_values(_)
object_values(o) ==
    IF o = <<>> THEN <<>> ELSE <<o[1].v>> \o object_values(Tail(o))

(***************************************************************************)
(* extract_value and Predicate::eval.  Numbers of the model are small      *)
(* integers, on which the f64 comparisons are exact.                       *)
(***************************************************************************)
RECURSIVE extract_value(_, _)
extract_value(obj, key_path) ==
    IF key_path = <<>> THEN Some(obj)
    ELSE LET got == get_key(obj, Head(key_path))
         IN  IF got = None THEN None ELSE extract_value(got.v, Tail(key_path))

approx_eq(a, b) == a = b

\* Predicate_eval, but the element need not be an object
Predicate_eval_any_shape(self, elem) ==
    LET got == extract_value(elem, self.key)
    IN  IF got = None THEN FALSE
        ELSE LET v == got.v
                 f == self.func
             IN  CASE f.t = "KeyExist" -> TRUE
                   [] f.t = "Equal" /\ v.t = "Number" -> approx_eq(v.n, f.n)
                   [] f.t = "GreaterThan" /\ v.t = "Number" -> v.n > f.n
                   [] f.t = "GreaterThanOrEqual" /\ v.t = "Number" -> v.n >= f.n
                   [] f.t = "LessThan" /\ v.t = "Number" -> v.n < f.n
                   [] f.t = "LessThanOrEqual" /\ v.t = "Number" -> v.n <= f.n
                   [] f.t = "EqualString" /\ v.t = "String" -> v.s = f.s
                   [] OTHER -> FALSE

Predicate_eval(self, elem) ==
    IF elem.t = "Object"
    THEN LET got == extract_value(elem, self.key)
         IN  IF got = None THEN FALSE
             ELSE LET v == got.v
                      f == self.func
                  IN  CASE f.t = "KeyExist" -> TRUE
                        [] f.t = "Equal" /\ v.t = "Number" -> approx_eq(v.n, f.n)
                        [] f.t = "GreaterThan" /\ v.t = "Number" -> v.n > f.n
                        [] f.t = "GreaterThanOrEqual" /\ v.t = "Number" -> v.n >= f.n
                        [] f.t = "LessThan" /\ v.t = "Number" -> v.n < f.n
                        [] f.t = "LessThanOrEqual" /\ v.t = "Number" -> v.n <= f.n
                        [] f.t = "EqualString" /\ v.t = "String" -> v.s = f.s
                        [] OTHER -> FALSE
    ELSE FALSE

(***************************************************************************)
(* Selector::eval                                                          *)
(***************************************************************************)
\* the children of an array or object, in iteration order
children(root) ==
    IF root.t = "Array" THEN root.a
    ELSE IF root.t = "Object" THEN object_values(root.o)
    ELSE <<>>

\* slice_loop, but the element at the end bound is taken too
RECURSIVE slice_loop_inclusive(_, _, _, _)
slice_loop_inclusive(values, s, e, i) ==
    IF i >= Len(values) THEN <<>>
    ELSE LET lo == IF s.t = "Some"
                   THEN (IF s.v < 0 THEN Len(values) + s.v ELSE s.v)
                   ELSE 0
             hi == IF e.t = "Some"
                   THEN (IF e.v < 0 THEN Len(values) + e.v ELSE e.v)
                   ELSE 0
             skip == (s.t = "Some" /\ i < lo) \/ (e.t = "Some" /\ i > hi)
         IN  (IF skip THEN <<>> ELSE <<values[i + 1]>>)
                 \o slice_loop_inclusive(values, s, e, i + 1)

\* ArraySlice: the for loop over values.iter().enumerate(), from index i on
RECURSIVE slice_loop(_, _, _, _)
slice_loop(values, s, e, i) ==
    IF i >= Len(values) THEN <<>>
    ELSE LET lo == IF s.t = "Some"
                   THEN (IF s.v < 0 THEN Len(values) + s.v ELSE s.v)
                   ELSE 0
             hi == IF e.t = "Some"
                   THEN (IF e.v < 0 THEN Len(values) + e.v ELSE e.v)
                   ELSE 0
             skip == (s.t = "Some" /\ i < lo) \/ (e.t = "Some" /\ i >= hi)
         IN  (IF skip THEN <<>> ELSE <<values[i + 1]>>)
                 \o slice_loop(values, s, e, i + 1)

\* ArrayIndex with several indexes: the for loop over indexes
RECURSIVE index_loop(_, _)
index_loop(root, indexes) ==
    IF indexes = <<>> THEN <<>>
    ELSE LET got == get_index(root, Head(indexes))
         IN  (IF got = None THEN <<>> ELSE <<got.v>>)
                 \o index_loop(root, Tail(indexes))

\* Filter: elements.iter().filter(|e| predicate.eval(e))
RECURSIVE filter_loop(_, _)
filter_loop(elements, predicate) ==
    IF elements = <<>> THEN <<>>
    ELSE (IF Predicate_eval(predicate, Head(elements)) THEN <<Head(elements)>> ELSE <<>>)
             \o filter_loop(Tail(elements), predicate)

RECURSIVE recursive_key(_, _), recursive_key_loop(_, _)
RECURSIVE recursive_wildcard(_), recursive_wildcard_loop(_)

\* recursive_key, but the value of the key at a node comes after the values
\* found below the node
recursive_key_post(key, root) ==
    IF root.t = "Object"
    THEN LET got == get_key(root, key)
         IN  recursive_key_loop(key, object_values(root.o))
                 \o (IF got = None THEN <<>> ELSE <<got.v>>)
    ELSE IF root.t = "Array" THEN recursive_key_loop(key, root.a)
    ELSE <<>>

\* RecursiveKey: the elements vector built for root
recursive_key(key, root) ==
    IF root.t = "Object"
    THEN LET got == get_key(root, key)
         IN  (IF got = None THEN <<>> ELSE <<got.v>>)
                 \o recursive_key_loop(key, object_values(root.o))
    ELSE IF root.t = "Array" THEN recursive_key_loop(key, root.a)
    ELSE <<>>
recursive_key_loop(key, values) ==
    IF values = <<>> THEN <<>>
    ELSE recursive_key(key, Head(values)) \o recursive_key_loop(key, Tail(values))

\* RecursiveWildcard: the elements vector built for root
recursive_wildcard(root) ==
    IF root.t \in {"Object", "Array"} THEN recursive_wildcard_loop(children(root))
    ELSE <<>>
\* recursive_wildcard_loop, but the values come before the descendants of
\* any of them
RECURSIVE recursive_wildcard_loop_level(_)
recursive_wildcard_loop_level(values) ==
    IF values = <<>> THEN <<>>
    ELSE <<Head(values)>> \o recursive_wildcard_loop_level(Tail(values))
             \o recursive_wildcard(Head(values))

recursive_wildcard_loop(values) ==
    IF values = <<>> THEN <<>>
    ELSE <<Head(values)>> \o recursive_wildcard(Head(values))
             \o recursive_wildcard_loop(Tail(values))

\* array_index, but with several indexes an absent index is no match
array_index_strict(indexes, root) ==
    IF Len(indexes) = 1
    THEN LET got == get_index(root, indexes[1])
         IN  IF got = None THEN None ELSE Some(SingleEntry(got.v))
    ELSE IF \E i \in 1..Len(indexes) : get_index(root, indexes[i]) = None
    THEN None
    ELSE Some(Collection(index_loop(root, indexes)))

\* ArrayIndex
array_index(indexes, root) ==
    IF Len(indexes) = 1
    THEN LET got == get_index(root, indexes[1])
         IN  IF got = None THEN None ELSE Some(SingleEntry(got.v))
    ELSE Some(Collection(index_loop(root, indexes)))

\* NameChild
name_child(field, root) ==
    LET got == get_key(root, field)
    IN  IF got = None THEN None ELSE Some(SingleEntry(got.v))

\* Selector_eval, but a Filter has no match on a root that is not an array
Selector_eval_filter_strict(self, root) ==
    CASE self.t = "NameChild" -> name_child(self.field, root)
      [] self.t \in {"Wildcard", "ArrayWildcard"} -> Some(Collection(children(root)))
      [] self.t = "ArraySlice" ->
            Some(Collection(IF root.t = "Array"
                            THEN slice_loop(root.a, self.start, self.end, 0)
                            ELSE <<>>))
      [] self.t = "RecursiveKey" -> Some(Collection(recursive_key(self.key, root)))
      [] self.t = "RecursiveWildcard" -> Some(Collection(recursive_wildcard(root)))
      [] self.t = "Filter" ->
            IF root.t = "Array"
            THEN Some(Collection(filter_loop(root.a, self.predicate)))
            ELSE None
      [] self.t = "ArrayIndex" -> array_index(self.indexes, root)

Selector_eval(self, root) ==
    CASE self.t = "NameChild" -> name_child(self.field, root)
      [] self.t \in {"Wildcard", "ArrayWildcard"} -> Some(Collection(children(root)))
      [] self.t = "ArraySlice" ->
            Some(Collection(IF root.t = "Array"
                            THEN slice_loop(root.a, self.start, self.end, 0)
                            ELSE <<>>))
      [] self.t = "RecursiveKey" -> Some(Collection(recursive_key(self.key, root)))
      [] self.t = "RecursiveWildcard" -> Some(Collection(recursive_wildcard(root)))
      [] self.t = "Filter" ->
            Some(Collection(IF root.t = "Array"
                            THEN filter_loop(root.a, self.predicate)
                            ELSE <<>>))
      [] self.t = "ArrayIndex" -> array_index(self.indexes, root)

(***************************************************************************)
(* Query::eval                                                             *)
(***************************************************************************)
\* collection_loop, but an element with no match is skipped
RECURSIVE collection_loop_skip(_, _, _, _)
collection_loop_skip(selector, values, elements, cur) ==
    IF values = <<>> THEN Some(cur)
    ELSE LET r == Selector_eval(selector, Head(values))
         IN  IF r = None
             THEN collection_loop_skip(selector, Tail(values), elements, Collection(elements))
             ELSE LET new == IF r.v.t = "SingleEntry"
                             THEN Append(elements, r.v.value)
                             ELSE elements \o r.v.values
                  IN  collection_loop_skip(selector, Tail(values), new, Collection(new))

\* the inner loop `for value in values` of the Collection arm: `cur` is the
\* local result, `elements` the vector built so far; None when `?` returns
RECURSIVE collection_loop(_, _, _, _)
collection_loop(selector, values, elements, cur) ==
    IF values = <<>> THEN Some(cur)
    ELSE LET r == Selector_eval(selector, Head(values))
         IN  IF r = None THEN None
             ELSE LET new == IF r.v.t = "SingleEntry"
                             THEN Append(elements, r.v.value)
                             ELSE elements \o r.v.values
                  IN  collection_loop(selector, Tail(values), new, Collection(new))

\* loop_body, but a collection of one value is treated as a single entry
loop_body_unwrap(selector, cur) ==
    IF cur.t = "SingleEntry"
    THEN Selector_eval(selector, cur.value)
    ELSE IF Len(cur.values) = 1
    THEN Selector_eval(selector, cur.values[1])
    ELSE collection_loop(selector, cur.values, <<>>, cur)

\* one iteration of `for selector in &self.selectors`
loop_body(selector, cur) ==
    IF cur.t = "SingleEntry"
    THEN Selector_eval(selector, cur.value)
    ELSE collection_loop(selector, cur.values, <<>>, cur)

\* the selectors the queries of SpecEval are made of
QuerySelectors ==
    {NameChild("a"), Wildcard, ArrayIndex(<<0>>), ArrayIndex(<<1, 0>>)}

Queries == UNION {[1..n -> QuerySelectors] : n \in 0..MaxSel}

\* the selectors SpecSelector applies, one per behaviour
IndexLists == {<<>>, <<0>>, <<1>>, <<2>>, <<1, 0>>, <<0, 3>>, <<2, 2, 0>>}
SliceBounds == {None, Some(0), Some(1), Some(-1), Some(5), Some(-5)}
Predicates ==
    {Predicate(<<"a">>, f) :
        f \in {KeyExist, Equal(1), Equal(2), GreaterThan(0), GreaterThan(1),
               GreaterThanOrEqual(1), GreaterThanOrEqual(2), LessThan(1), LessThan(2),
               LessThanOrEqual(0), LessThanOrEqual(1), EqualString("x"),
               EqualString("y")}}
        \cup {Predicate(<<"a", "b">>, KeyExist), Predicate(<<>>, KeyExist)}
AllSelectors ==
    {NameChild("a"), NameChild("b"), Wildcard, ArrayWildcard,
     RecursiveKey("a"), RecursiveWildcard}
        \cup {ArrayIndex(l) : l \in IndexLists}
        \cup {ArraySlice(b[1], b[2]) : b \in SliceBounds \X SliceBounds}
        \cup {Filter(p) : p \in Predicates}

\* the selectors that return a Collection for every root
Indefinite(s) ==
    \/ s.t \in {"Wildcard", "ArrayWildcard", "ArraySlice", "RecursiveKey",
                "RecursiveWildcard", "Filter"}
    \/ s.t = "ArrayIndex" /\ Len(s.indexes) > 1

\* the selectors the queries of several indefinite selectors are made of
ChainSelectors ==
    {Wildcard, RecursiveWildcard, Filter(Predicate(<<"a">>, KeyExist)),
     ArrayIndex(<<1, 0>>)}

\* the queries of SpecIndefinite: one indefinite selector of any kind, or up
\* to MaxSel of the chain selectors
IndefiniteQueries ==
    {<<s>> : s \in {x \in AllSelectors : Indefinite(x)}}
        \cup UNION {[1..n -> ChainSelectors] : n \in 1..MaxSel}

idleParse ==
    /\ buffer = <<>>
    /\ state = [cursor |-> 0, pos |-> [line |-> 1, column |-> 1]]
    /\ rule = ""
    /\ start = [cursor |-> 0, pos |-> [line |-> 1, column |-> 1]]
    /\ res = Pending

InitEval ==
    /\ value \in Values
    /\ query \in Queries
    /\ idx = 0
    /\ result = SingleEntry(value)
    /\ returned = Pending
    /\ idleParse

\* one selector, applied to one value
InitSelector ==
    /\ value \in Values
    /\ query \in {<<s>> : s \in AllSelectors}
    /\ idx = 0
    /\ result = SingleEntry(value)
    /\ returned = Pending
    /\ idleParse

\* the body of the for loop, for the selector at idx
EvalStep ==
    /\ returned = Pending
    /\ idx < Len(query)
    /\ LET r == loop_body(query[idx + 1], result)
       IN  /\ idx' = idx + 1
           /\ result' = IF r = None THEN result ELSE r.v
           /\ returned' = IF r = None THEN None ELSE Pending
    /\ UNCHANGED <<value, query, parseVars>>

\* Some(result) after the loop
EvalReturn ==
    /\ returned = Pending
    /\ idx = Len(query)
    /\ returned' = Some(result)
    /\ UNCHANGED <<value, query, idx, result, parseVars>>

NextEval == EvalStep \/ EvalReturn

SpecEval == InitEval /\ [][NextEval]_vars

SpecSelector == InitSelector /\ [][NextEval]_vars

\* a query of indefinite selectors, applied to one value
InitIndefinite ==
    /\ value \in Values
    /\ query \in IndefiniteQueries
    /\ idx = 0
    /\ result = SingleEntry(value)
    /\ returned = Pending
    /\ idleParse

SpecIndefinite == InitIndefinite /\ [][NextEval]_vars

(***************************************************************************)
(* Reader: a cursor over `buffer` with the line and column of the cursor.   *)
(* A ParseResult carries the reader state the call left behind (`st`),      *)
(* since every rule takes the reader by mutable reference.                  *)
(***************************************************************************)
Pos(line, column) == [line |-> line, column |-> column]
\* SourceInfo, but with the two positions exchanged
SourceInfo_swapped(s, e) == [start |-> e, end |-> s]

SourceInfo(s, e) == [start |-> s, end |-> e]
Reader_new == [cursor |-> 0, pos |-> Pos(1, 1)]

Ok(v, st) == [ok |-> TRUE, val |-> v, st |-> st]
Err(pos, recoverable, inner, st) ==
    [ok |-> FALSE, pos |-> pos, recoverable |-> recoverable, inner |-> inner, st |-> st]

\* the characters of the model's inputs that are not alphanumeric
Punctuation == {" ", "\n", "#", ":", "/", ".", "*", "[", "]", "{", "}"}
is_alphanumeric(c) == c \notin Punctuation
is_ascii_digit(c) == c \in {"0", "1", "2", "3", "4", "5", "6", "7", "8", "9"}

is_eof(st) == st.cursor = Len(buffer)
peek(st) == IF is_eof(st) THEN None ELSE Some(buffer[st.cursor + 1])

\* Reader::read, the reader not being at end of input
read(st) ==
    [cursor |-> st.cursor + 1,
     pos |-> IF buffer[st.cursor + 1] = "\n"
             THEN Pos(st.pos.line + 1, 1)
             ELSE Pos(st.pos.line, st.pos.column + 1)]

RECURSIVE read_n(_, _)
read_n(st, n) == IF n = 0 \/ is_eof(st) THEN st ELSE read_n(read(st), n - 1)

\* the text between two reader states
text(from, to) == SubSeq(buffer, from.cursor + 1, to.cursor)

\* Reader::read_while(|c| c.is_alphanumeric()): the state after the run
RECURSIVE read_while_alphanumeric(_)
read_while_alphanumeric(st) ==
    IF is_eof(st) \/ ~is_alphanumeric(buffer[st.cursor + 1]) THEN st
    ELSE read_while_alphanumeric(read(st))

\* Reader::read_while(|c| c.is_ascii_digit())
RECURSIVE read_while_digit(_)
read_while_digit(st) ==
    IF is_eof(st) \/ ~is_ascii_digit(buffer[st.cursor + 1]) THEN st
    ELSE read_while_digit(read(st))

\* Reader::read_while over the characters of a set
RECURSIVE read_while_in(_, _)
read_while_in(chars, st) ==
    IF is_eof(st) \/ buffer[st.cursor + 1] \notin chars THEN st
    ELSE read_while_in(chars, read(st))

\* Reader::read_while up to, and without, the first character of a set
RECURSIVE read_while_not(_, _)
read_while_not(chars, st) ==
    IF is_eof(st) \/ buffer[st.cursor + 1] \in chars THEN st
    ELSE read_while_not(chars, read(st))

(***************************************************************************)
(* Sequencing.  Bind(r, K) is `let x = r; K(x)` and Try(r, K) is            *)
(* `let x = r?; K(x)`: r is evaluated once, and an error returns at once.    *)
(***************************************************************************)
Bind(r, K(_)) == CHOOSE y \in {K(x) : x \in {r}} : TRUE
Try(r, K(_)) == CHOOSE y \in {IF x.ok THEN K(x) ELSE x : x \in {r}} : TRUE

(***************************************************************************)
(* Primitives and combinators (parser/primitives.rs, parser/combinators.rs) *)
(***************************************************************************)
\* the number of leading characters of s that are next in the input
RECURSIVE matched(_, _, _)
matched(s, st, k) ==
    IF k < Len(s) /\ st.cursor + k < Len(buffer) /\ buffer[st.cursor + k + 1] = s[k + 1]
    THEN matched(s, st, k + 1)
    ELSE k

\* literal: the exact text, or a fatal error at its start; the reader stops
\* after the first character that differs
literal(s, st) ==
    Bind(matched(s, st, 0), LAMBDA k :
        IF k = Len(s) THEN Ok(s, read_n(st, k))
        ELSE Err(st.pos, FALSE, "Expecting", read_n(st, k + 1)))

\* try_literal: literal made recoverable, the reader restored on failure
try_literal(s, st) ==
    Bind(literal(s, st), LAMBDA r :
        IF r.ok THEN r ELSE Err(r.pos, TRUE, r.inner, st))

\* recover: the error made recoverable, the reader left where it is
recover(r) ==
    Bind(r, LAMBDA x : IF x.ok THEN x ELSE Err(x.pos, TRUE, x.inner, x.st))

\* optional: a recoverable failure becomes absence, the reader restored
optional(r, st) ==
    Bind(r, LAMBDA x :
        IF x.ok THEN Ok(Some(x.val), x.st)
        ELSE IF x.recoverable THEN Ok(None, st)
        ELSE x)

Whitespace(from, to) ==
    [value |-> text(from, to), source_info |-> SourceInfo(from.pos, to.pos)]

\* zero_or_more_spaces: the run of spaces, possibly empty; it never fails
zero_or_more_spaces(st) ==
    Bind(read_while_in({" "}, st), LAMBDA e : Ok(Whitespace(st, e), e))

\* one_or_more_spaces: the run of spaces, fatal when there is none
one_or_more_spaces(st) ==
    Bind(read_while_in({" "}, st), LAMBDA e :
        IF e.cursor = st.cursor THEN Err(st.pos, FALSE, "Space", read_n(st, 1))
        ELSE Ok(Whitespace(st, e), e))

\* eof: fatal when input remains
eof(st) == IF is_eof(st) THEN Ok(<<>>, st) ELSE Err(st.pos, FALSE, "Expecting", st)

digit_value(c) ==
    CASE c = "0" -> 0 [] c = "1" -> 1 [] c = "2" -> 2 [] c = "3" -> 3 [] c = "4" -> 4
      [] c = "5" -> 5 [] c = "6" -> 6 [] c = "7" -> 7 [] c = "8" -> 8 [] c = "9" -> 9

\* str::parse::<u64> of a run of digits (the runs of the model fit in 64 bits)
RECURSIVE parse_u64(_)
parse_u64(digits) ==
    IF digits = <<>> THEN 0
    ELSE parse_u64(SubSeq(digits, 1, Len(digits) - 1)) * 10
             + digit_value(digits[Len(digits)])

\* natural: a run of digits without a superfluous leading zero
natural(st) ==
    IF is_eof(st) THEN Err(st.pos, TRUE, "Expecting", st)
    ELSE IF ~is_ascii_digit(buffer[st.cursor + 1])
    THEN Err(st.pos, TRUE, "Expecting", read(st))
    ELSE Bind(read_while_digit(read(st)), LAMBDA e :
            IF buffer[st.cursor + 1] = "0" /\ e.cursor > st.cursor + 1
            THEN Err(read(st).pos, FALSE, "Expecting", e)
            ELSE Ok(parse_u64(text(st, e)), e))

(***************************************************************************)
(* method, version, status                                                 *)
(***************************************************************************)
available_methods ==
    <<[s |-> <<"G", "E", "T">>, method |-> "Get"],
      [s |-> <<"H", "E", "A", "D">>, method |-> "Head"],
      [s |-> <<"P", "O", "S", "T">>, method |-> "Post"],
      [s |-> <<"P", "U", "T">>, method |-> "Put"],
      [s |-> <<"D", "E", "L", "E", "T", "E">>, method |-> "Delete"],
      [s |-> <<"C", "O", "N", "N", "E", "C", "T">>, method |-> "Connect"],
      [s |-> <<"O", "P", "T", "I", "O", "N", "S">>, method |-> "Options"],
      [s |-> <<"T", "R", "A", "C", "E">>, method |-> "Trace"],
      [s |-> <<"P", "A", "T", "C", "H">>, method |-> "Patch"],
      [s |-> <<"L", "I", "N", "K">>, method |-> "Link"],
      [s |-> <<"U", "N", "L", "I", "N", "K">>, method |-> "Unlink"],
      [s |-> <<"P", "U", "R", "G", "E">>, method |-> "Purge"],
      [s |-> <<"L", "O", "C", "K">>, method |-> "Lock"],
      [s |-> <<"U", "N", "L", "O", "C", "K">>, method |-> "Unlock"],
      [s |-> <<"P", "R", "O", "P", "F", "I", "N", "D">>, method |-> "Propfind"],
      [s |-> <<"V", "I", "E", "W">>, method |-> "View"]>>

\* the loop `for (s, method) in available_methods`, from entry i on: the
\* method returned, or the error after the loop
RECURSIVE method_loop(_, _, _, _)
method_loop(begin, e, name, i) ==
    IF i > Len(available_methods) THEN Err(begin.pos, FALSE, "Method", begin)
    ELSE IF name = available_methods[i].s THEN Ok(available_methods[i].method, e)
    ELSE method_loop(begin, e, name, i + 1)

\* method, but the reader is left after the run when no token matches
method_no_rewind(st) ==
    IF is_eof(st) THEN Err(st.pos, TRUE, "Method", st)
    ELSE Bind(read_while_alphanumeric(st), LAMBDA e :
            Bind(method_loop(st, e, text(st, e), 1), LAMBDA r :
                IF r.ok THEN r ELSE Err(r.pos, r.recoverable, r.inner, e)))

method(st) ==
    IF is_eof(st) THEN Err(st.pos, TRUE, "Method", st)
    ELSE Bind(read_while_alphanumeric(st), LAMBDA e :
            method_loop(st, e, text(st, e), 1))

HTTP == <<"H", "T", "T", "P">>

\* available_version, but /1.1 has the value of /1.0
available_version_merged ==
    <<[s |-> <<"/", "1", ".", "0">>, value |-> "Version1"],
      [s |-> <<"/", "1", ".", "1">>, value |-> "Version1"],
      [s |-> <<"/", "2">>, value |-> "Version2"],
      [s |-> <<"/", "*">>, value |-> "VersionAnyLegacy"]>>

available_version ==
    <<[s |-> <<"/", "1", ".", "0">>, value |-> "Version1"],
      [s |-> <<"/", "1", ".", "1">>, value |-> "Version11"],
      [s |-> <<"/", "2">>, value |-> "Version2"],
      [s |-> <<"/", "*">>, value |-> "VersionAnyLegacy"]>>

\* the loop `for (s, value) in available_version.iter()`, from entry i on: the
\* version returned, or the error after the loop
RECURSIVE version_loop(_, _, _)
version_loop(begin, st, i) ==
    IF i > Len(available_version) THEN Err(begin.pos, FALSE, "Version", st)
    ELSE Bind(try_literal(available_version[i].s, st), LAMBDA r :
            IF r.ok
            THEN Ok([value |-> available_version[i].value,
                     source_info |-> SourceInfo(begin.pos, r.st.pos)], r.st)
            ELSE version_loop(begin, st, i + 1))

\* version, but a fatal error is reported where the reader stopped
version_pos_here(st) ==
    Try(try_literal(HTTP, st), LAMBDA h :
    Bind(peek(h.st), LAMBDA next_c :
        IF next_c = Some("/") THEN version_loop(h.st, h.st, 1)
        ELSE IF next_c = Some(" ")
        THEN Ok([value |-> "VersionAny",
                 source_info |-> SourceInfo(st.pos, h.st.pos)], h.st)
        ELSE Err(h.st.pos, FALSE, "Version", h.st)))

version(st) ==
    Try(try_literal(HTTP, st), LAMBDA h :
    Bind(peek(h.st), LAMBDA next_c :
        IF next_c = Some("/") THEN version_loop(st, h.st, 1)
        ELSE IF next_c = Some(" ")
        THEN Ok([value |-> "VersionAny",
                 source_info |-> SourceInfo(st.pos, h.st.pos)], h.st)
        ELSE Err(st.pos, FALSE, "Version", h.st)))

\* status, but the error is reported where the reader stopped
status_pos_here(st) ==
    Bind(try_literal(<<"*">>, st), LAMBDA any :
        IF any.ok
        THEN Ok([value |-> [t |-> "Any"],
                 source_info |-> SourceInfo(st.pos, any.st.pos)], any.st)
        ELSE Bind(natural(st), LAMBDA n :
                IF n.ok
                THEN Ok([value |-> [t |-> "Specific", n |-> n.val],
                         source_info |-> SourceInfo(st.pos, n.st.pos)], n.st)
                ELSE Err(n.st.pos, FALSE, "Status", n.st)))

status(st) ==
    Bind(try_literal(<<"*">>, st), LAMBDA any :
        IF any.ok
        THEN Ok([value |-> [t |-> "Any"],
                 source_info |-> SourceInfo(st.pos, any.st.pos)], any.st)
        ELSE Bind(natural(st), LAMBDA n :
                IF n.ok
                THEN Ok([value |-> [t |-> "Specific", n |-> n.val],
                         source_info |-> SourceInfo(st.pos, n.st.pos)], n.st)
                ELSE Err(st.pos, FALSE, "Status", n.st)))

(***************************************************************************)
(* Sub-grammars the rules call: line terminators, url, key-value pairs,     *)
(* sections and bytes.                                                     *)
(***************************************************************************)
\* comment: `#` and the rest of the line
comment(st) ==
    Try(try_literal(<<"#">>, st), LAMBDA h :
    Bind(read_while_not({"\n"}, h.st), LAMBDA e :
        Ok([value |-> text(h.st, e)], e)))

\* newline: fatal when the next character is not a newline
newline(st) ==
    Bind(literal(<<"\n">>, st), LAMBDA r :
        IF r.ok THEN Ok(Whitespace(st, r.st), r.st)
        ELSE Err(st.pos, FALSE, "Expecting", r.st))

\* line_terminator: spaces, an optional comment, then a newline or end of input
line_terminator(st) ==
    Try(zero_or_more_spaces(st), LAMBDA space0 :
    Try(optional(comment(space0.st), space0.st), LAMBDA c :
    Bind(IF is_eof(c.st) THEN Ok(Whitespace(c.st, c.st), c.st) ELSE newline(c.st),
         LAMBDA nl :
        IF ~nl.ok THEN Err(nl.pos, FALSE, "Expecting", nl.st)
        ELSE Ok([space0 |-> space0.val, comment |-> c.val, newline |-> nl.val],
                nl.st))))

\* optional_line_terminators: zero_or_more(recover(line_terminator)); `acc` is
\* the vector built so far
RECURSIVE optional_line_terminators_loop(_, _)
optional_line_terminators_loop(st, acc) ==
    IF is_eof(st) THEN Ok(acc, st)
    ELSE Bind(recover(line_terminator(st)), LAMBDA r :
            IF r.ok THEN optional_line_terminators_loop(r.st, Append(acc, r.val))
            ELSE Ok(acc, st))

optional_line_terminators(st) == optional_line_terminators_loop(st, <<>>)

\* url: a non-empty run of url characters, a fatal error otherwise
url(st) ==
    Bind(read_while_not({" ", "\n", "#", "{", "}"}, st), LAMBDA e :
        IF e.cursor = st.cursor THEN Err(st.pos, FALSE, "Url", st)
        ELSE Ok([value |-> text(st, e), source_info |-> SourceInfo(st.pos, e.pos)], e))

\* unquoted_string_key: a non-empty run of alphanumeric characters
unquoted_string_key(st) ==
    Bind(read_while_alphanumeric(st), LAMBDA e :
        IF e.cursor = st.cursor THEN Err(st.pos, FALSE, "Expecting", read_n(st, 1))
        ELSE Ok(text(st, e), e))

\* unquoted_template: the rest of the line, up to a comment
unquoted_template(st) ==
    Bind(read_while_not({"\n", "#"}, st), LAMBDA e : Ok(text(st, e), e))

\* key_value: `key: value` on a line of its own; a failure before the value
\* is recoverable and leaves the reader where it stopped
key_value(st) ==
    Try(optional_line_terminators(st), LAMBDA line_terminators :
    Try(zero_or_more_spaces(line_terminators.st), LAMBDA space0 :
    Try(recover(unquoted_string_key(space0.st)), LAMBDA key :
    Try(zero_or_more_spaces(key.st), LAMBDA space1 :
    Try(recover(literal(<<":">>, space1.st)), LAMBDA colon :
    Try(zero_or_more_spaces(colon.st), LAMBDA space2 :
    Try(unquoted_template(space2.st), LAMBDA v :
    Try(line_terminator(v.st), LAMBDA line_terminator0 :
        Ok([line_terminators |-> line_terminators.val,
            space0 |-> space0.val,
            key |-> key.val,
            space1 |-> space1.val,
            space2 |-> space2.val,
            value |-> v.val,
            line_terminator0 |-> line_terminator0.val], line_terminator0.st)))))))))

\* zero_or_more(key_value, reader); `acc` is the vector built so far
RECURSIVE zero_or_more_key_value(_, _)
zero_or_more_key_value(st, acc) ==
    IF is_eof(st) THEN Ok(acc, st)
    ELSE Bind(key_value(st), LAMBDA r :
            IF r.ok THEN zero_or_more_key_value(r.st, Append(acc, r.val))
            ELSE IF r.recoverable THEN Ok(acc, st)
            ELSE r)

\* the section names of the model: two of a request, two of a response
request_section_names == {<<"Q">>, <<"F">>}
response_section_names == {<<"C">>, <<"A">>}

\* section_name: `[`, a run of alphanumeric characters, `]`
section_name(st) ==
    Try(try_literal(<<"[">>, st), LAMBDA open :
    Bind(read_while_alphanumeric(open.st), LAMBDA e :
    Try(try_literal(<<"]">>, e), LAMBDA close :
        Ok(text(open.st, e), close.st))))

\* a section: its name on a line of its own, then its key-value pairs; a name
\* that is not one of `names` is a fatal error
section(names, st) ==
    Try(optional_line_terminators(st), LAMBDA line_terminators :
    Try(zero_or_more_spaces(line_terminators.st), LAMBDA space0 :
    Try(section_name(space0.st), LAMBDA name :
    Try(line_terminator(name.st), LAMBDA line_terminator0 :
        IF name.val \notin names
        THEN Err(Pos(space0.st.pos.line, space0.st.pos.column + 1), FALSE,
                 "SectionName", line_terminator0.st)
        ELSE Try(zero_or_more_key_value(line_terminator0.st, <<>>), LAMBDA items :
                Ok([line_terminators |-> line_terminators.val,
                    space0 |-> space0.val,
                    name |-> name.val,
                    line_terminator0 |-> line_terminator0.val,
                    value |-> items.val,
                    source_info |-> SourceInfo(space0.st.pos, name.st.pos)],
                   items.st))))))

\* zero_or_more(section, reader); `acc` is the vector built so far
RECURSIVE zero_or_more_section(_, _, _)
zero_or_more_section(names, st, acc) ==
    IF is_eof(st) THEN Ok(acc, st)
    ELSE Bind(section(names, st), LAMBDA r :
            IF r.ok THEN zero_or_more_section(names, r.st, Append(acc, r.val))
            ELSE IF r.recoverable THEN Ok(acc, st)
            ELSE r)

request_sections(st) == zero_or_more_section(request_section_names, st, <<>>)
response_sections(st) == zero_or_more_section(response_section_names, st, <<>>)

\* bytes: of the body values, the JSON object `{}`; anything else that starts
\* with `{` is a fatal error after the brace, anything else is no body
bytes(st) ==
    Try(try_literal(<<"{">>, st), LAMBDA open :
    Bind(try_literal(<<"}">>, open.st), LAMBDA close :
        IF ~close.ok THEN Err(open.st.pos, FALSE, "Json", open.st)
        ELSE Ok([t |-> "Json", text |-> text(st, close.st)], close.st)))

(***************************************************************************)
(* body, request, response, entry, hurl_file                               *)
(***************************************************************************)
body(st) ==
    Try(optional_line_terminators(st), LAMBDA line_terminators :
    Try(zero_or_more_spaces(line_terminators.st), LAMBDA space0 :
    Try(bytes(space0.st), LAMBDA content :
    Try(line_terminator(content.st), LAMBDA line_terminator0 :
        Ok([line_terminators |-> line_terminators.val,
            space0 |-> space0.val,
            value |-> content.val,
            line_terminator0 |-> line_terminator0.val], line_terminator0.st)))))

\* check_duplicated_section, but the last section whose name already occurred
\* is the one reported
RECURSIVE check_duplicated_section_last(_, _, _, _)
check_duplicated_section_last(sections, i, section_names, st) ==
    IF i > Len(sections) THEN None
    ELSE Bind(check_duplicated_section_last(sections, i + 1,
                                            section_names \cup {sections[i].name}, st),
              LAMBDA later :
                IF later # None THEN later
                ELSE IF sections[i].name \in section_names
                THEN Some(Err(sections[i].source_info.start, FALSE,
                              "DuplicateSection", st))
                ELSE None)

\* the loop `for section in sections.clone()` with its `section_names`, from
\* section i on: the error returned for a duplicate, None after the loop
RECURSIVE check_duplicated_section(_, _, _, _)
check_duplicated_section(sections, i, section_names, st) ==
    IF i > Len(sections) THEN None
    ELSE IF sections[i].name \in section_names
    THEN Some(Err(sections[i].source_info.start, FALSE, "DuplicateSection", st))
    ELSE check_duplicated_section(sections, i + 1,
                                  section_names \cup {sections[i].name}, st)

request(st) ==
    Try(optional_line_terminators(st), LAMBDA line_terminators :
    Try(zero_or_more_spaces(line_terminators.st), LAMBDA space0 :
    Try(method(space0.st), LAMBDA m :
    Try(one_or_more_spaces(m.st), LAMBDA space1 :
    Try(url(space1.st), LAMBDA u :
    Try(line_terminator(u.st), LAMBDA line_terminator0 :
    Try(zero_or_more_key_value(line_terminator0.st, <<>>), LAMBDA headers :
    Try(request_sections(headers.st), LAMBDA sections :
    Try(optional(body(sections.st), sections.st), LAMBDA b :
    Bind(check_duplicated_section(sections.val, 1, {}, b.st), LAMBDA dup :
        IF dup # None THEN dup.v
        ELSE Ok([line_terminators |-> line_terminators.val,
                 space0 |-> space0.val,
                 method |-> m.val,
                 space1 |-> space1.val,
                 url |-> u.val,
                 line_terminator0 |-> line_terminator0.val,
                 headers |-> headers.val,
                 sections |-> sections.val,
                 body |-> b.val,
                 source_info |-> SourceInfo(st.pos, b.st.pos)], b.st)))))))))))

response(st) ==
    Try(optional_line_terminators(st), LAMBDA line_terminators :
    Try(zero_or_more_spaces(line_terminators.st), LAMBDA space0 :
    Try(version(space0.st), LAMBDA _version :
    Try(one_or_more_spaces(_version.st), LAMBDA space1 :
    Try(status(space1.st), LAMBDA _status :
    Try(line_terminator(_status.st), LAMBDA line_terminator0 :
    Try(zero_or_more_key_value(line_terminator0.st, <<>>), LAMBDA headers :
    Try(response_sections(headers.st), LAMBDA sections :
    Try(optional(body(sections.st), sections.st), LAMBDA b :
        Ok([line_terminators |-> line_terminators.val,
            space0 |-> space0.val,
            version |-> _version.val,
            space1 |-> space1.val,
            status |-> _status.val,
            line_terminator0 |-> line_terminator0.val,
            headers |-> headers.val,
            sections |-> sections.val,
            body |-> b.val,
            source_info |-> SourceInfo(st.pos, b.st.pos)], b.st))))))))))

\* entry, but a failure of request gives an entry of nothing, the reader
\* restored
entry_or_nothing(st) ==
    Bind(request(st), LAMBDA req :
        IF ~req.ok THEN Ok([request |-> None, response |-> None], st)
        ELSE Try(optional(response(req.st), req.st), LAMBDA resp :
                Ok([request |-> req.val, response |-> resp.val], resp.st)))

\* entry, but the response is never attempted
entry_request_only(st) ==
    Try(request(st), LAMBDA req :
        Ok([request |-> req.val, response |-> None], req.st))

\* entry, but any failure of response is taken as an absent response
entry_lenient(st) ==
    Try(request(st), LAMBDA req :
    Bind(response(req.st), LAMBDA resp :
        IF resp.ok THEN Ok([request |-> req.val, response |-> Some(resp.val)], resp.st)
        ELSE Ok([request |-> req.val, response |-> None], req.st)))

entry(st) ==
    Try(request(st), LAMBDA req :
    Try(optional(response(req.st), req.st), LAMBDA resp :
        Ok([request |-> req.val, response |-> resp.val], resp.st)))

\* zero_or_more(entry, reader); `acc` is the vector built so far
RECURSIVE zero_or_more_entry(_, _)
zero_or_more_entry(st, acc) ==
    IF is_eof(st) THEN Ok(acc, st)
    ELSE Bind(entry(st), LAMBDA r :
            IF r.ok THEN zero_or_more_entry(r.st, Append(acc, r.val))
            ELSE IF r.recoverable THEN Ok(acc, st)
            ELSE r)

\* hurl_file, but at most one entry is parsed and nothing is required after it
hurl_file_one_entry(st) ==
    Try(optional(entry(st), st), LAMBDA e :
        Ok([entries |-> IF e.val = None THEN <<>> ELSE <<e.val.v>>,
            line_terminators |-> <<>>], e.st))

hurl_file(st) ==
    Try(zero_or_more_entry(st, <<>>), LAMBDA entries :
    Try(optional_line_terminators(entries.st), LAMBDA line_terminators :
    Try(eof(line_terminators.st), LAMBDA e :
        Ok([entries |-> entries.val, line_terminators |-> line_terminators.val],
           e.st))))

(***************************************************************************)
(* The parser as a state machine: the reader is created on an input, may    *)
(* read some characters, and then one grammar rule is called on it.         *)
(***************************************************************************)
MaxStart == 2           \* the rule is called at one of the first MaxStart + 1 cursors
MaxMethodTail == 1      \* fragments after the method token
MaxVersionTail == 2     \* fragments after HTTP
MaxStatusFrags == 2     \* fragments of a status input
MaxLines == 3           \* lines of a file input
MaxSections == 3        \* sections after the first line(s)

RECURSIVE Concat(_)
Concat(ss) == IF ss = <<>> THEN <<>> ELSE Head(ss) \o Concat(Tail(ss))

\* the concatenations of at most n fragments
Texts(fragments, n) == {Concat(fs) : fs \in UNION {[1..k -> fragments] : k \in 0..n}}

MethodHeads ==
    {available_methods[i].s : i \in 1..Len(available_methods)}
        \cup {<<>>, <<"x">>, <<"g", "e", "t">>}
MethodInputs ==
    {h \o t : h \in MethodHeads, t \in Texts({<<" ">>, <<"x">>, <<"\n">>, <<"/">>}, MaxMethodTail)}

VersionTails ==
    {available_version[i].s : i \in 1..Len(available_version)}
        \cup {<<"/">>, <<"/", "1", ".">>, <<" ">>, <<"x">>, <<"1">>}
VersionInputs ==
    {h \o t : h \in {HTTP, <<"H", "T", "T">>, <<>>}, t \in Texts(VersionTails, MaxVersionTail)}

StatusInputs ==
    Texts({<<"*">>, <<"2", "0", "0">>, <<"0">>, <<"x">>, <<" ">>}, MaxStatusFrags)

GET_u == <<"G", "E", "T", " ", "u", "\n">>
HTTP_200 == <<"H", "T", "T", "P", "/", "1", ".", "1", " ", "2", "0", "0", "\n">>

FileLines ==
    {GET_u,
     <<"P", "U", "T", " ", "u">>,
     HTTP_200,
     <<"\n">>,
     <<" ">>,
     <<"#", " ", "c", "\n">>,
     <<"{", "}", "\n">>,
     <<"k", ":", " ", "v", "\n">>,
     <<"H", "T", "T", "P", "/", "1", ".", " ", "2", "\n">>,
     <<"x", "\n">>}
FileInputs == Texts(FileLines, MaxLines)

SectionLines ==
    {<<"[", "Q", "]", "\n">>,
     <<"\n", " ", "[", "Q", "]", "\n">>,
     <<"[", "F", "]", "\n">>,
     <<"[", "A", "]", "\n">>,
     <<"[", "C", "]", "\n">>}
SectionInputs ==
    {h \o t : h \in {GET_u, HTTP_200, GET_u \o HTTP_200},
              t \in Texts(SectionLines, MaxSections)}

\* a request line for every method token, a response line for every version form
HeadLineInputs ==
    {available_methods[i].s \o <<" ", "u", " ", "#", "c", "\n">> :
        i \in 1..Len(available_methods)}
    \cup {HTTP \o f \o t : f \in {available_version[i].s : i \in 1..Len(available_version)}
                                   \cup {<<>>},
                            t \in {<<" ", "2", "0", "0", "\n">>, <<" ", " ", "*">>}}

Inputs ==
    MethodInputs \cup VersionInputs \cup StatusInputs \cup FileInputs \cup SectionInputs
        \cup HeadLineInputs

idleEval ==
    /\ value = Null
    /\ query = <<>>
    /\ idx = 0
    /\ result = SingleEntry(Null)
    /\ returned = Pending

\* Reader::new(s)
Init ==
    /\ buffer \in Inputs
    /\ state = Reader_new
    /\ rule = ""
    /\ start = Reader_new
    /\ res = Pending
    /\ idleEval

\* Reader::read before any rule is called
Read ==
    /\ rule = ""
    /\ ~is_eof(state)
    /\ state.cursor < MaxStart
    /\ state' = read(state)
    /\ UNCHANGED <<buffer, rule, start, res, evalVars>>

\* a grammar rule called on the reader, and what it returned
Call(name, r) ==
    /\ rule = ""
    /\ rule' = name
    /\ start' = state
    /\ res' = r
    /\ state' = r.st
    /\ UNCHANGED <<buffer, evalVars>>

CallMethod == Call("method", method(state))
CallVersion == Call("version", version(state))
CallStatus == Call("status", status(state))
CallBody == Call("body", body(state))
CallRequest == Call("request", request(state))
CallResponse == Call("response", response(state))
CallEntry == Call("entry", entry(state))
CallHurlFile == Call("hurl_file", hurl_file(state))

Next ==
    \/ Read
    \/ CallMethod
    \/ CallVersion
    \/ CallStatus
    \/ CallBody
    \/ CallRequest
    \/ CallResponse
    \/ CallEntry
    \/ CallHurlFile

Spec == Init /\ [][Next]_vars

(***************************************************************************)
(* hurl_file step by step: the loop of zero_or_more(entry, reader), one     *)
(* iteration per step, then the line terminators and eof.  `res` holds the  *)
(* vector of entries while the loop runs.                                   *)
(***************************************************************************)
MaxLoopLines == 3       \* lines of an input of the loop

LoopLines ==
    {GET_u,
     HTTP_200,
     <<"\n">>,
     <<" ">>,
     <<"[", "Q", "]", "\n">>,
     <<"x", "\n">>}
LoopInputs == Texts(LoopLines, MaxLoopLines)

InitLoop ==
    /\ buffer \in LoopInputs
    /\ state = Reader_new
    /\ rule = ""
    /\ start = Reader_new
    /\ res = Pending
    /\ idleEval

\* the HurlFile under construction: the vector of zero_or_more, no line
\* terminators yet
Partial(entries, st) == Ok([entries |-> entries, line_terminators |-> <<>>], st)

\* hurl_file is called: zero_or_more starts with an empty vector
LoopStart ==
    /\ rule = ""
    /\ rule' = "zero_or_more"
    /\ start' = state
    /\ res' = Partial(<<>>, state)
    /\ UNCHANGED <<buffer, state, evalVars>>

\* an iteration in which entry succeeds: the entry is pushed
LoopPush ==
    /\ rule = "zero_or_more"
    /\ ~is_eof(state)
    /\ Len(res.val.entries) <= Len(buffer)
    /\ LET r == entry(state)
       IN  /\ r.ok
           /\ res' = Partial(Append(res.val.entries, r.val), r.st)
           /\ state' = r.st
    /\ UNCHANGED <<buffer, rule, start, evalVars>>

\* the loop ends: at end of input, or on a recoverable failure of entry, the
\* reader restored
LoopStop ==
    /\ rule = "zero_or_more"
    /\ is_eof(state) \/ (~entry(state).ok /\ entry(state).recoverable)
    /\ rule' = "entries"
    /\ UNCHANGED <<buffer, state, start, res, evalVars>>

\* a fatal failure of entry is returned by zero_or_more and by hurl_file
LoopFail ==
    /\ rule = "zero_or_more"
    /\ ~is_eof(state)
    /\ LET r == entry(state)
       IN  /\ ~r.ok /\ ~r.recoverable
           /\ res' = r
           /\ state' = r.st
    /\ rule' = "hurl_file"
    /\ UNCHANGED <<buffer, start, evalVars>>

\* after the loop: the line terminators, eof, and the HurlFile
LoopFinish ==
    /\ rule = "entries"
    /\ LET lt == optional_line_terminators(state)
           e == eof(lt.st)
           r == IF e.ok
                THEN Ok([entries |-> res.val.entries, line_terminators |-> lt.val], e.st)
                ELSE e
       IN  /\ res' = r
           /\ state' = r.st
    /\ rule' = "hurl_file"
    /\ UNCHANGED <<buffer, start, evalVars>>

NextLoop == LoopStart \/ LoopPush \/ LoopStop \/ LoopFail \/ LoopFinish

\* the call runs on: a step that can be taken is taken
SpecLoop == InitLoop /\ [][NextLoop]_vars /\ WF_vars(NextLoop)

(***************************************************************************)
(* Properties of Query::eval                                               *)
(***************************************************************************)
\* the values a result holds, in order
Elements(r) == IF r.t = "SingleEntry" THEN <<r.value>> ELSE r.values

\* the concatenation of the values of a sequence of per-element outputs
RECURSIVE Flatten(_)
Flatten(outs) ==
    IF outs = <<>> THEN <<>> ELSE Elements(Head(outs).v) \o Flatten(Tail(outs))

\* the per-element outputs of a selector on a sequence of values
Outputs(selector, values) ==
    [i \in 1..Len(values) |-> Selector_eval(selector, values[i])]

\* one step of the fold: a single entry is replaced by the selector's output,
\* a collection by the concatenation of the per-element outputs
FoldStep(cur, selector) ==
    IF cur.t = "SingleEntry" THEN Selector_eval(selector, cur.value)
    ELSE LET outs == Outputs(selector, cur.values)
         IN  IF \E i \in 1..Len(outs) : outs[i] = None THEN None
             ELSE Some(Collection(Flatten(outs)))

\* the fold of the first n selectors, from SingleEntry(v)
RECURSIVE FoldOf(_, _, _)
FoldOf(selectors, n, v) ==
    IF n = 0 THEN Some(SingleEntry(v))
    ELSE LET before == FoldOf(selectors, n - 1, v)
         IN  IF before = None THEN None ELSE FoldStep(before.v, selectors[n])

\* C1: Query.eval is the left-to-right fold of its selectors from
\* SingleEntry(value): while the call has not aborted, the running result is the
\* fold of the selectors taken so far; once a step has produced a Collection,
\* every later result is a Collection; the value returned is Some of the fold
\* of all the selectors, and SingleEntry(value) for the empty selector list.
C1_EvalIsFold ==
    /\ returned # None => Some(result) = FoldOf(query, idx, value)
    /\ returned # None =>
          \A j \in 0..idx :
              LET f == FoldOf(query, j, value)
              IN  (f # None /\ f.v.t = "Collection") => result.t = "Collection"
    /\ returned.t = "Some" =>
          /\ idx = Len(query)
          /\ returned = FoldOf(query, Len(query), value)
          /\ query = <<>> => returned = Some(SingleEntry(value))

\* a Collection met a definite selector: the single entry of its element was
\* gathered into a Collection, which was returned
C1_Witness ==
    /\ returned.t = "Some"
    /\ idx = 2
    /\ query[2].t = "NameChild"
    /\ FoldOf(query, 1, value).v.t = "Collection"
    /\ returned.v.t = "Collection"
    /\ Len(returned.v.values) = 1

\* C2: when the selector of the step just taken had no match on the current
\* single entry, or on any one element of the current collection, the call has
\* returned None (every step is the step just taken in the state that follows it).
C2_NoMatchAborts ==
    idx >= 1 =>
        LET before == FoldOf(query, idx - 1, value)
        IN  (/\ before # None
             /\ \E i \in 1..Len(Elements(before.v)) :
                    Selector_eval(query[idx], Elements(before.v)[i]) = None)
                => returned = None

\* the first element of a collection matched and a later one did not: None
C2_Witness ==
    /\ returned = None
    /\ idx = 2
    /\ LET before == FoldOf(query, 1, value)
       IN  /\ before # None
           /\ before.v.t = "Collection"
           /\ Len(before.v.values) = 2
           /\ Selector_eval(query[2], before.v.values[1]) # None
           /\ Selector_eval(query[2], before.v.values[2]) = None

\* the elements of root at the indexes that exist, in the order of the indexes
PresentAt(root, indexes) ==
    LET there == SelectSeq(indexes,
                           LAMBDA i : root.t = "Array" /\ i >= 0 /\ i < Len(root.a))
    IN  [k \in 1..Len(there) |-> root.a[there[k] + 1]]

\* C10: ArrayIndex with exactly one index returns SingleEntry of the element at
\* that index when the input is an array that has it, and otherwise has no match,
\* which aborts the query; with any other number of indexes it returns the
\* Collection of the elements at the indexes that exist, in the order given, and
\* never aborts.
C10_ArrayIndex ==
    (idx = 1 /\ query[1].t = "ArrayIndex") =>
        LET indexes == query[1].indexes
        IN  IF Len(indexes) = 1
            THEN IF value.t = "Array" /\ indexes[1] < Len(value.a)
                 THEN /\ returned # None
                      /\ result = SingleEntry(value.a[indexes[1] + 1])
                 ELSE returned = None
            ELSE /\ returned # None
                 /\ result = Collection(PresentAt(value, indexes))

\* two indexes, the first one absent from the array: it was skipped
C10_Witness ==
    /\ idx = 1
    /\ query[1] = ArrayIndex(<<1, 0>>)
    /\ value.t = "Array"
    /\ Len(value.a) = 1
    /\ returned = Some(Collection(<<value.a[1]>>))

\* one index, out of range: the query was aborted
C10_WitnessAbort ==
    /\ idx = 1
    /\ query[1] = ArrayIndex(<<0>>)
    /\ value = Array(<<>>)
    /\ returned = None

(***************************************************************************)
(* Properties of the recursive selectors                                   *)
(***************************************************************************)
\* the nodes of a value in pre-order: the value, then the nodes of each child
RECURSIVE PreOrder(_), PreOrderAll(_)
PreOrder(v) == <<v>> \o PreOrderAll(children(v))
PreOrderAll(vs) ==
    IF vs = <<>> THEN <<>> ELSE PreOrder(Head(vs)) \o PreOrderAll(Tail(vs))

\* the number of nodes of a value
RECURSIVE NodeCount(_), NodeCountAll(_)
NodeCount(v) ==
    IF v.t = "Array" THEN 1 + NodeCountAll(v.a)
    ELSE IF v.t = "Object" THEN 1 + NodeCountAll([i \in 1..Len(v.o) |-> v.o[i].v])
    ELSE 1
NodeCountAll(vs) ==
    IF vs = <<>> THEN 0 ELSE NodeCount(Head(vs)) + NodeCountAll(Tail(vs))

HasField(v, k) == v.t = "Object" /\ \E i \in 1..Len(v.o) : v.o[i].k = k
FieldOf(v, k) == v.o[CHOOSE i \in 1..Len(v.o) : v.o[i].k = k].v

\* C14: RecursiveKey(k) returns a Collection for every value: the values of
\* the field k of the objects at or below the input that have one, the objects
\* taken in pre-order (so the value of k at a node comes before those found
\* below it, and a matched value is searched too).
C14_RecursiveKey ==
    (idx = 1 /\ query[1].t = "RecursiveKey") =>
        LET having == SelectSeq(PreOrder(value), LAMBDA n : HasField(n, query[1].key))
        IN  /\ returned # None
            /\ result = Collection([i \in 1..Len(having) |->
                                       FieldOf(having[i], query[1].key)])

\* the key inside the value of the key: two results, the outer one first
C14_Witness ==
    /\ idx = 1
    /\ query[1] = RecursiveKey("a")
    /\ value = Object(<<[k |-> "a", v |-> Object(<<[k |-> "a", v |-> Number(1)]>>)]>>)
    /\ result = Collection(<<Object(<<[k |-> "a", v |-> Number(1)]>>), Number(1)>>)

\* no occurrence of the key: the empty Collection, returned
C14_WitnessEmpty ==
    /\ query = <<RecursiveKey("a")>>
    /\ value = Array(<<Number(1)>>)
    /\ returned = Some(Collection(<<>>))

\* C15: RecursiveWildcard returns a Collection for every value: every proper
\* descendant of the input once, in pre-order, so as many values as the input
\* has descendant nodes and none for a scalar; the input itself is not among
\* them.
C15_RecursiveWildcard ==
    (idx = 1 /\ query[1].t = "RecursiveWildcard") =>
        /\ returned # None
        /\ result = Collection(Tail(PreOrder(value)))
        /\ Len(result.values) = NodeCount(value) - 1
        /\ value.t \notin {"Array", "Object"} => result.values = <<>>

\* an array of an array and a scalar: the inner array, its element, then the
\* scalar
C15_Witness ==
    /\ idx = 1
    /\ query[1] = RecursiveWildcard
    /\ value = Array(<<Array(<<Number(1)>>), String("x")>>)
    /\ result = Collection(<<Array(<<Number(1)>>), Number(1), String("x")>>)

(***************************************************************************)
(* Properties of the other indefinite selectors                            *)
(***************************************************************************)
Max(a, b) == IF a >= b THEN a ELSE b
Min(a, b) == IF a <= b THEN a ELSE b

\* a slice bound on an array of length len; `open` when the bound is absent
Bound(b, len, open) ==
    IF b = None THEN open ELSE IF b.v >= 0 THEN b.v ELSE len + b.v

\* C16: ArraySlice(start, end) on an array of length len returns the
\* Collection of the elements at the indices i with lo <= i < hi, in array
\* order, a negative bound counting from len and an absent bound not
\* constraining its side; bounds outside 0..len select fewer or all elements;
\* an input that is not an array gives the empty Collection.
C16_ArraySlice ==
    (idx = 1 /\ query[1].t = "ArraySlice") =>
        /\ returned # None
        /\ IF value.t = "Array"
           THEN LET len == Len(value.a)
                    lo == Bound(query[1].start, len, 0)
                    hi == Bound(query[1].end, len, len)
                    picked == SelectSeq([i \in 1..len |-> i - 1],
                                        LAMBDA i : lo <= i /\ i < hi)
                IN  /\ result = Collection([j \in 1..Len(picked) |->
                                                value.a[picked[j] + 1]])
                    /\ result = Collection(SubSeq(value.a, Max(lo, 0) + 1, Min(hi, len)))
           ELSE result = Collection(<<>>)

\* the slice [1, -1) of an array of three elements: the second element
C16_Witness ==
    /\ idx = 1
    /\ query[1] = ArraySlice(Some(1), Some(-1))
    /\ value.t = "Array"
    /\ Len(value.a) = 3
    /\ result = Collection(<<value.a[2]>>)

\* the slice [-5, 5) of an array of two elements: both elements
C16_WitnessOutside ==
    /\ idx = 1
    /\ query[1] = ArraySlice(Some(-5), Some(5))
    /\ value.t = "Array"
    /\ Len(value.a) = 2
    /\ result = Collection(value.a)

\* the direct children of a value, in iteration order
DirectChildren(v) ==
    IF v.t = "Array" THEN v.a
    ELSE IF v.t = "Object" THEN [i \in 1..Len(v.o) |-> v.o[i].v]
    ELSE <<>>

\* C17: Wildcard, ArrayWildcard, ArraySlice, RecursiveKey, RecursiveWildcard,
\* Filter and ArrayIndex with several indices return a Collection for every
\* value, the empty one for a scalar, Wildcard and ArrayWildcard the direct
\* children in iteration order; so a query of one or more such selectors never
\* aborts, its result is a Collection after every step, and it returns
\* Some(Collection).
C17_IndefiniteNeverAborts ==
    (idx >= 1 /\ \A j \in 1..idx : Indefinite(query[j])) =>
        /\ returned # None
        /\ result.t = "Collection"
        /\ returned.t = "Some" => returned.v.t = "Collection"
        /\ (idx = 1 /\ value.t \notin {"Array", "Object"}) => result = Collection(<<>>)
        /\ (idx = 1 /\ query[1].t \in {"Wildcard", "ArrayWildcard"}) =>
               result = Collection(DirectChildren(value))

\* a filter after a recursive wildcard, on a scalar: Some of the empty
\* Collection was returned
C17_Witness ==
    /\ query = <<RecursiveWildcard, Filter(Predicate(<<"a">>, KeyExist))>>
    /\ value = Number(1)
    /\ returned = Some(Collection(<<>>))

\* two wildcards on an array of an array and a scalar: the grandchild was
\* returned
C17_WitnessChain ==
    /\ query = <<Wildcard, Wildcard>>
    /\ value = Array(<<Array(<<Number(1)>>), String("x")>>)
    /\ returned = Some(Collection(<<Number(1)>>))

\* the key path resolves from v by successive field lookups; the value reached
RECURSIVE Resolves(_, _), Resolved(_, _)
Resolves(v, path) ==
    path = <<>> \/ (HasField(v, Head(path)) /\ Resolves(FieldOf(v, Head(path)), Tail(path)))
Resolved(v, path) ==
    IF path = <<>> THEN v ELSE Resolved(FieldOf(v, Head(path)), Tail(path))

\* the value fits the kind of the predicate
Fits(f, v) ==
    \/ f.t = "KeyExist"
    \/ f.t = "Equal" /\ v.t = "Number" /\ v.n = f.n
    \/ f.t = "GreaterThan" /\ v.t = "Number" /\ v.n > f.n
    \/ f.t = "GreaterThanOrEqual" /\ v.t = "Number" /\ v.n >= f.n
    \/ f.t = "LessThan" /\ v.t = "Number" /\ v.n < f.n
    \/ f.t = "LessThanOrEqual" /\ v.t = "Number" /\ v.n <= f.n
    \/ f.t = "EqualString" /\ v.t = "String" /\ v.s = f.s

Holds(p, e) ==
    /\ e.t = "Object"
    /\ Resolves(e, p.key)
    /\ Fits(p.func, Resolved(e, p.key))

\* C18: Filter(p) on an array returns the Collection of the elements, in
\* array order, for which p is true, and the empty Collection on any other
\* input; p is true for an element exactly when the element is an object, the
\* key path of p resolves by successive field lookups, and the value reached
\* fits the kind of p (any value for key existence, a number that compares as
\* asked with the literal, a string equal to the literal); it never aborts.
C18_Filter ==
    (idx = 1 /\ query[1].t = "Filter") =>
        /\ returned # None
        /\ result = Collection(IF value.t = "Array"
                               THEN SelectSeq(value.a,
                                              LAMBDA e : Holds(query[1].predicate, e))
                               ELSE <<>>)

\* an object whose number is less than the literal is kept, an element that
\* is no object is not
C18_Witness ==
    /\ idx = 1
    /\ query[1] = Filter(Predicate(<<"a">>, LessThan(2)))
    /\ value = Array(<<String("x"), Object(<<[k |-> "a", v |-> Number(1)]>>)>>)
    /\ result = Collection(<<Object(<<[k |-> "a", v |-> Number(1)]>>)>>)

\* a string against a numeric literal: false, and the empty Collection
C18_WitnessMismatch ==
    /\ query = <<Filter(Predicate(<<"a">>, Equal(1)))>>
    /\ value = Array(<<Object(<<[k |-> "a", v |-> String("x")]>>)>>)
    /\ returned = Some(Collection(<<>>))

\* a key path of two keys, resolved through a nested object
C18_WitnessPath ==
    /\ idx = 1
    /\ query[1] = Filter(Predicate(<<"a", "b">>, KeyExist))
    /\ value.t = "Array"
    /\ Len(value.a) = 1
    /\ result = Collection(value.a)

(***************************************************************************)
(* Properties of the grammar rules.  After a call, `rule` names the rule,   *)
(* `start` is the reader before the call, `res` what the rule returned and  *)
(* `state` the reader after the call.                                      *)
(***************************************************************************)
\* the input from the reader's cursor on
Rest(st) == SubSeq(buffer, st.cursor + 1, Len(buffer))

HasPrefix(p, s) == Len(p) <= Len(s) /\ SubSeq(s, 1, Len(p)) = p

\* no two sections of the sequence have the same name
DistinctNames(sections) ==
    \A i, j \in 1..Len(sections) : sections[i].name = sections[j].name => i = j

\* the requests and responses of what a successful parse returned
Messages(name, val) ==
    LET OfEntry(e) == {e.request} \cup (IF e.response = None THEN {} ELSE {e.response.v})
    IN  CASE name \in {"request", "response"} -> {val}
          [] name = "entry" -> OfEntry(val)
          [] name = "hurl_file" ->
                UNION {OfEntry(val.entries[i]) : i \in 1..Len(val.entries)}

\* C3: in every Request and every Response returned by a successful parse
\* (request, response, entry or hurl_file), no two sections have the same name.
C3_NoDuplicateSections ==
    (rule \in {"request", "response", "entry", "hurl_file"} /\ res.ok) =>
        \A m \in Messages(rule, res.val) : DistinctNames(m.sections)

\* the cursors of the input at which a section name opens, and the name there
\* (the section names of the model are one character long)
Brackets == {i \in 1..Len(buffer) - 1 : buffer[i] = "["}
NameAt(i) == <<buffer[i + 1]>>
Repeats == {i \in Brackets : \E j \in Brackets : j < i /\ NameAt(j) = NameAt(i)}
Least(S) == CHOOSE i \in S : \A j \in S : i <= j

\* the request line is followed by nothing but sections of a request
OnlyRequestSections ==
    /\ HasPrefix(GET_u, buffer)
    /\ \A i \in Len(GET_u) + 1..Len(buffer) :
           buffer[i] \in {"[", "]", "\n", " ", "Q", "F"}

MethodTokens ==
    {<<<<"G", "E", "T">>, "Get">>,
     <<<<"H", "E", "A", "D">>, "Head">>,
     <<<<"P", "O", "S", "T">>, "Post">>,
     <<<<"P", "U", "T">>, "Put">>,
     <<<<"D", "E", "L", "E", "T", "E">>, "Delete">>,
     <<<<"C", "O", "N", "N", "E", "C", "T">>, "Connect">>,
     <<<<"O", "P", "T", "I", "O", "N", "S">>, "Options">>,
     <<<<"T", "R", "A", "C", "E">>, "Trace">>,
     <<<<"P", "A", "T", "C", "H">>, "Patch">>,
     <<<<"L", "I", "N", "K">>, "Link">>,
     <<<<"U", "N", "L", "I", "N", "K">>, "Unlink">>,
     <<<<"P", "U", "R", "G", "E">>, "Purge">>,
     <<<<"L", "O", "C", "K">>, "Lock">>,
     <<<<"U", "N", "L", "O", "C", "K">>, "Unlock">>,
     <<<<"P", "R", "O", "P", "F", "I", "N", "D">>, "Propfind">>,
     <<<<"V", "I", "E", "W">>, "View">>}

\* the maximal run of alphanumeric characters at the cursor
RECURSIVE AlphanumericRun(_)
AlphanumericRun(s) ==
    IF s = <<>> \/ Head(s) \in Punctuation THEN <<>>
    ELSE <<Head(s)>> \o AlphanumericRun(Tail(s))

\* C5: method has three outcomes: at end of input a recoverable error at the
\* current position, the reader unchanged; when the maximal alphanumeric run at
\* the cursor is one of the sixteen tokens, the matching variant, the reader
\* advanced by the length of the token; otherwise a fatal error at the start of
\* the run, the reader rewound to that start.
C5_MethodOutcomes ==
    rule = "method" =>
        LET run == AlphanumericRun(Rest(start))
        IN  IF Rest(start) = <<>>
            THEN /\ ~res.ok /\ res.recoverable
                 /\ res.pos = start.pos
                 /\ state = start
            ELSE IF \E t \in MethodTokens : t[1] = run
            THEN /\ res.ok
                 /\ <<run, res.val>> \in MethodTokens
                 /\ state = read_n(start, Len(run))
            ELSE /\ ~res.ok /\ ~res.recoverable
                 /\ res.pos = start.pos
                 /\ state = start

\* a token followed directly by an alphanumeric character: a fatal error, the
\* reader back at the start
C5_Witness ==
    /\ rule = "method"
    /\ buffer = <<"G", "E", "T", "x">>
    /\ start = Reader_new
    /\ ~res.ok /\ ~res.recoverable
    /\ state = start

\* C6: a rule (request, response, entry, body, method, version, status) that
\* returned a recoverable failure left the reader as it found it.
C6_RecoverableLeavesReader ==
    (/\ rule \in {"request", "response", "entry", "body", "method", "version", "status"}
     /\ ~res.ok
     /\ res.recoverable)
        => state = start

\* C7: hurl_file returns either a HurlFile, the reader then being at end of
\* input, or one error and no HurlFile, the error being fatal.
C7_HurlFileOutcome ==
    rule = "hurl_file" =>
        \/ /\ res.ok
           /\ DOMAIN res = {"ok", "val", "st"}
           /\ DOMAIN res.val = {"entries", "line_terminators"}
           /\ is_eof(state)
        \/ /\ ~res.ok
           /\ DOMAIN res = {"ok", "pos", "recoverable", "inner", "st"}
           /\ ~res.recoverable

\* a file of two entries, the first with a response: the HurlFile was
\* returned at end of input
C7_Witness ==
    /\ rule = "hurl_file"
    /\ start = Reader_new
    /\ res.ok
    /\ Len(res.val.entries) = 2
    /\ res.val.entries[1].response # None
    /\ is_eof(state)

\* trailing text that is no entry: one fatal error
C7_WitnessFatal ==
    /\ rule = "hurl_file"
    /\ buffer = GET_u \o <<"x", "\n">>
    /\ start = Reader_new
    /\ ~res.ok /\ ~res.recoverable

\* C8: entry is one request, then an optional response.  When request fails,
\* entry fails with the request's error and the reader is where request left
\* it; when response then fails recoverably, entry succeeds with no response
\* and the reader where the request ended; when response fails fatally, entry
\* fails with that error; when response succeeds, the entry has it.
C8_EntryOutcomes ==
    rule = "entry" =>
        LET req == request(start)
            resp == response(req.st)
        IN  IF ~req.ok
            THEN res = req /\ state = req.st
            ELSE IF resp.ok
            THEN /\ res.ok
                 /\ res.val = [request |-> req.val, response |-> Some(resp.val)]
                 /\ state = resp.st
            ELSE IF resp.recoverable
            THEN /\ res.ok
                 /\ res.val = [request |-> req.val, response |-> None]
                 /\ state = req.st
            ELSE /\ res = resp
                 /\ ~res.ok /\ ~res.recoverable

\* a request, then a response whose version is malformed: entry failed with
\* the fatal error of the version, at the start of the second line
C8_Witness ==
    /\ rule = "entry"
    /\ buffer = GET_u \o <<"H", "T", "T", "P", "/", "1", ".", " ", "2", "\n">>
    /\ start = Reader_new
    /\ ~res.ok /\ ~res.recoverable
    /\ res.inner = "Version"
    /\ res.pos = Pos(2, 1)

\* a request, then blank lines and a line that is no response: the entry has
\* no response and the reader is at the end of the request line
C8_WitnessAbsent ==
    /\ rule = "entry"
    /\ buffer = GET_u \o <<"\n">> \o GET_u
    /\ start = Reader_new
    /\ res.ok
    /\ res.val.response = None
    /\ state.cursor = Len(GET_u)

\* the forms of a version after HTTP, and their values
VersionForms ==
    {<<<<"/", "1", ".", "0">>, "Version1">>,
     <<<<"/", "1", ".", "1">>, "Version11">>,
     <<<<"/", "2">>, "Version2">>,
     <<<<"/", "*">>, "VersionAnyLegacy">>}

\* C9: after HTTP, version accepts /1.0, /1.1, /2 and /* and returns Version1,
\* Version11, Version2 and VersionAnyLegacy, the reader advanced past the
\* matched text and no further; before a space it returns VersionAny and the
\* space is not consumed; HTTP followed by anything else, or by end of input, is
\* a fatal error at the position where HTTP started; without HTTP the failure is
\* recoverable.
C9_VersionForms ==
    rule = "version" =>
        LET rest == Rest(start)
            after == SubSeq(rest, Len(HTTP) + 1, Len(rest))
        IN  IF ~HasPrefix(HTTP, rest)
            THEN ~res.ok /\ res.recoverable
            ELSE IF \E f \in VersionForms : HasPrefix(f[1], after)
            THEN \E f \in VersionForms :
                    /\ HasPrefix(f[1], after)
                    /\ res.ok
                    /\ res.val.value = f[2]
                    /\ state = read_n(start, Len(HTTP) + Len(f[1]))
            ELSE IF HasPrefix(<<" ">>, after)
            THEN /\ res.ok
                 /\ res.val.value = "VersionAny"
                 /\ state = read_n(start, Len(HTTP))
            ELSE /\ ~res.ok /\ ~res.recoverable
                 /\ res.pos = start.pos

\* HTTP/1. on the second line: a fatal error at the start of that line
C9_Witness ==
    /\ rule = "version"
    /\ HasPrefix(<<"\n", "H", "T", "T", "P", "/", "1", ".", " ">>, buffer)
    /\ start.cursor = 1
    /\ ~res.ok /\ ~res.recoverable
    /\ res.pos = Pos(2, 1)

\* HTTP before a space: VersionAny, the reader on the space
C9_WitnessAny ==
    /\ rule = "version"
    /\ HasPrefix(<<"H", "T", "T", "P", " ">>, buffer)
    /\ start = Reader_new
    /\ res.ok
    /\ res.val.value = "VersionAny"
    /\ state.cursor = 4

(***************************************************************************)
(* The text of an AST: the recorded texts of its fields, in order.          *)
(***************************************************************************)
\* the decimal digits of a natural number
RECURSIVE to_string(_)
to_string(n) ==
    LET digit == <<"0", "1", "2", "3", "4", "5", "6", "7", "8", "9">>[(n % 10) + 1]
    IN  IF n < 10 THEN <<digit>> ELSE to_string(n \div 10) \o <<digit>>

LineTerminatorText(lt) ==
    lt.space0.value
        \o (IF lt.comment = None THEN <<>> ELSE <<"#">> \o lt.comment.v.value)
        \o lt.newline.value

RECURSIVE LineTerminatorsText(_)
LineTerminatorsText(lts) ==
    IF lts = <<>> THEN <<>>
    ELSE LineTerminatorText(Head(lts)) \o LineTerminatorsText(Tail(lts))

KeyValueText(kv) ==
    LineTerminatorsText(kv.line_terminators) \o kv.space0.value \o kv.key
        \o kv.space1.value \o <<":">> \o kv.space2.value \o kv.value
        \o LineTerminatorText(kv.line_terminator0)

RECURSIVE KeyValuesText(_)
KeyValuesText(kvs) ==
    IF kvs = <<>> THEN <<>> ELSE KeyValueText(Head(kvs)) \o KeyValuesText(Tail(kvs))

SectionText(sec) ==
    LineTerminatorsText(sec.line_terminators) \o sec.space0.value
        \o <<"[">> \o sec.name \o <<"]">>
        \o LineTerminatorText(sec.line_terminator0) \o KeyValuesText(sec.value)

RECURSIVE SectionsText(_)
SectionsText(secs) ==
    IF secs = <<>> THEN <<>> ELSE SectionText(Head(secs)) \o SectionsText(Tail(secs))

BodyText(b) ==
    IF b = None THEN <<>>
    ELSE LineTerminatorsText(b.v.line_terminators) \o b.v.space0.value
             \o b.v.value.text \o LineTerminatorText(b.v.line_terminator0)

\* the token of a Method variant, the suffix of a VersionValue
MethodText(m) ==
    available_methods[CHOOSE i \in 1..Len(available_methods) :
                          available_methods[i].method = m].s
VersionText(v) ==
    HTTP \o (IF v = "VersionAny" THEN <<>>
             ELSE available_version[CHOOSE i \in 1..Len(available_version) :
                                        available_version[i].value = v].s)
StatusText(v) == IF v.t = "Any" THEN <<"*">> ELSE to_string(v.n)

RequestText(r) ==
    LineTerminatorsText(r.line_terminators) \o r.space0.value
        \o MethodText(r.method) \o r.space1.value \o r.url.value
        \o LineTerminatorText(r.line_terminator0)
        \o KeyValuesText(r.headers) \o SectionsText(r.sections) \o BodyText(r.body)

ResponseText(r) ==
    LineTerminatorsText(r.line_terminators) \o r.space0.value
        \o VersionText(r.version.value) \o r.space1.value \o StatusText(r.status.value)
        \o LineTerminatorText(r.line_terminator0)
        \o KeyValuesText(r.headers) \o SectionsText(r.sections) \o BodyText(r.body)

\* C11: the text of the AST that request or response returned is the input
\* the rule consumed; the sixteen method tokens have sixteen distinct variants
\* and the five version forms five distinct values.
C11_RoundTrip ==
    /\ (rule = "request" /\ res.ok) => RequestText(res.val) = text(start, state)
    /\ (rule = "response" /\ res.ok) => ResponseText(res.val) = text(start, state)
    /\ Len(available_methods) = 16
    /\ \A i, j \in 1..Len(available_methods) :
          available_methods[i].method = available_methods[j].method => i = j
    /\ Len(available_version) = 4
    /\ \A i, j \in 1..Len(available_version) :
          /\ available_version[i].value = available_version[j].value => i = j
          /\ available_version[i].value # "VersionAny"

\* a request after a comment line, with a header and a body: all of the input
\* was consumed and is the text of the AST
C11_Witness ==
    /\ rule = "request"
    /\ start = Reader_new
    /\ res.ok
    /\ Len(res.val.line_terminators) = 1
    /\ res.val.line_terminators[1].comment # None
    /\ res.val.body # None
    /\ is_eof(state)
    /\ RequestText(res.val) = buffer

\* a response line HTTP/1.1 200: its text is the input
C11_WitnessResponse ==
    /\ rule = "response"
    /\ start = Reader_new
    /\ res.ok
    /\ res.val.version.value = "Version11"
    /\ res.val.status.value = [t |-> "Specific", n |-> 200]
    /\ ResponseText(res.val) = buffer

(***************************************************************************)
(* Files of well-formed entries                                            *)
(***************************************************************************)
\* the texts of a well-formed entry: a request line, alone or after a blank
\* line, a comment line or a space, or followed by a header, a body or a
\* response line
EntryTexts ==
    {GET_u,
     GET_u \o HTTP_200,
     <<"\n">> \o GET_u,
     <<"#", " ", "c", "\n">> \o GET_u,
     <<" ">> \o GET_u,
     GET_u \o <<"k", ":", " ", "v", "\n">>,
     GET_u \o <<"{", "}", "\n">>}

\* the ways to read the text s as a sequence of entry texts
RECURSIVE Decompose(_)
Decompose(s) ==
    IF s = <<>> THEN {<<>>}
    ELSE UNION {{<<e>> \o d : d \in Decompose(SubSeq(s, Len(e) + 1, Len(s)))} :
                    e \in {x \in EntryTexts : HasPrefix(x, s)}}

EntryText(e) ==
    RequestText(e.request)
        \o (IF e.response = None THEN <<>> ELSE ResponseText(e.response.v))

\* C12: hurl_file on a text made of N well-formed entries returns a HurlFile
\* of N entries in source order: the k-th entry is the AST of the k-th entry
\* text, it starts at column 1 where the entry before it ended, it has a
\* response exactly when a response line follows its request, and it is one
\* request and at most one response.
C12_EntriesInOrder ==
    (rule = "hurl_file" /\ start = Reader_new) =>
        \A es \in Decompose(buffer) :
            /\ res.ok
            /\ Len(res.val.entries) = Len(es)
            /\ \A k \in 1..Len(es) :
                  LET e == res.val.entries[k]
                      before == Len(Concat(SubSeq(es, 1, k - 1)))
                  IN  /\ DOMAIN e = {"request", "response"}
                      /\ e.response = None \/ e.response.t = "Some"
                      /\ EntryText(e) = es[k]
                      /\ e.request.source_info.start = read_n(Reader_new, before).pos
                      /\ e.request.source_info.start.column = 1
                      /\ e.response # None <=> HasPrefix(GET_u \o HTTP_200, es[k])
                      /\ e.response # None =>
                            e.response.v.source_info.start = e.request.source_info.end

\* three request lines: three entries, the third starting on line 3
C12_Witness ==
    /\ rule = "hurl_file"
    /\ buffer = GET_u \o GET_u \o GET_u
    /\ res.ok
    /\ Len(res.val.entries) = 3
    /\ res.val.entries[3].request.source_info.start = Pos(3, 1)

\* a request line, then a request line with its response line: two entries,
\* the response in the second
C12_WitnessResponse ==
    /\ rule = "hurl_file"
    /\ buffer = GET_u \o GET_u \o HTTP_200
    /\ res.ok
    /\ Len(res.val.entries) = 2
    /\ res.val.entries[1].response = None
    /\ res.val.entries[2].response # None

(***************************************************************************)
(* status                                                                  *)
(***************************************************************************)
\* the maximal run of digits at the head of s
RECURSIVE DigitRun(_)
DigitRun(s) ==
    IF s = <<>> \/ ~is_ascii_digit(Head(s)) THEN <<>>
    ELSE <<Head(s)>> \o DigitRun(Tail(s))

\* C13: status returns Any when `*` is next and Specific(n) when the digits of
\* the natural number n are next, the source info going from the position of
\* the call to the reader's position after the text consumed; in every other
\* case, end of input included, it fails with a fatal error at the position of
\* the call.
C13_StatusOutcomes ==
    rule = "status" =>
        LET rest == Rest(start)
            run == DigitRun(rest)
        IN  IF HasPrefix(<<"*">>, rest)
            THEN /\ res.ok
                 /\ res.val.value = [t |-> "Any"]
                 /\ state = read_n(start, 1)
                 /\ res.val.source_info = SourceInfo(start.pos, state.pos)
            ELSE IF run # <<>> /\ (Head(run) = "0" => Len(run) = 1)
            THEN /\ res.ok
                 /\ res.val.value.t = "Specific"
                 /\ to_string(res.val.value.n) = run
                 /\ state = read_n(start, Len(run))
                 /\ res.val.source_info = SourceInfo(start.pos, state.pos)
            ELSE /\ ~res.ok /\ ~res.recoverable
                 /\ res.inner = "Status"
                 /\ res.pos = start.pos

\* 200 after a space: Specific(200), from column 2 to column 5
C13_Witness ==
    /\ rule = "status"
    /\ buffer = <<" ", "2", "0", "0">>
    /\ start.cursor = 1
    /\ res.ok
    /\ res.val.value = [t |-> "Specific", n |-> 200]
    /\ res.val.source_info = SourceInfo(Pos(1, 2), Pos(1, 5))

\* neither `*` nor a digit after a space: a fatal error at column 2
C13_WitnessFatal ==
    /\ rule = "status"
    /\ buffer = <<" ", "x">>
    /\ start.cursor = 1
    /\ ~res.ok /\ ~res.recoverable
    /\ res.pos = Pos(1, 2)

(***************************************************************************)
(* Source positions                                                        *)
(***************************************************************************)
\* position a is at or before position b in document order
AtOrBefore(a, b) == a.line < b.line \/ (a.line = b.line /\ a.column <= b.column)

\* the source infos that request, response, version and status recorded in
\* what the rule returned
RecordedInfos(name, val) ==
    CASE name \in {"request", "version", "status"} -> {val.source_info}
      [] name = "response" ->
            {val.source_info, val.version.source_info, val.status.source_info}
      [] OTHER -> {}

\* C19: every SourceInfo that request, response, version and status record on
\* a successful parse ends at or after its start in document order; the one of
\* the rule called goes from the reader's position on entry to its position
\* on return.
C19_EndNotBeforeStart ==
    (rule \in {"request", "response", "version", "status"} /\ res.ok) =>
        /\ \A si \in RecordedInfos(rule, res.val) : AtOrBefore(si.start, si.end)
        /\ res.val.source_info.start = start.pos
        /\ res.val.source_info.end = state.pos
        /\ state.cursor >= start.cursor

\* a request called at column 2 that ends at column 1 of the next line
C19_Witness ==
    /\ rule = "request"
    /\ res.ok
    /\ res.val.source_info.start = Pos(1, 2)
    /\ res.val.source_info.end = Pos(2, 1)

(***************************************************************************)
(* Termination of hurl_file                                                *)
(***************************************************************************)
\* C20: hurl_file terminates: every iteration of the entry loop that pushes an
\* entry moves the cursor forward, so the loop has pushed no more entries than
\* the reader has consumed characters; the loop ends at end of input, on a
\* recoverable failure of entry or on a fatal one; and the call returns, with
\* what hurl_file returns.
C20_HurlFileTerminates ==
    /\ [][(rule = "zero_or_more" /\ rule' = "zero_or_more")
              => state'.cursor > state.cursor]_vars
    /\ [][(rule = "zero_or_more" /\ rule' # "zero_or_more")
              => \/ is_eof(state)
                 \/ ~entry(state).ok]_vars
    /\ [](rule = "zero_or_more" =>
              /\ Len(res.val.entries) <= state.cursor - start.cursor
              /\ state.cursor <= Len(buffer))
    /\ [](rule = "hurl_file" => res = hurl_file(start))
    /\ <>(rule = "hurl_file")

\* the loop has pushed three entries
C20_Witness ==
    /\ rule = "zero_or_more"
    /\ Len(res.val.entries) = 3
    /\ is_eof(state)

\* the loop ended on a fatal failure of the second entry
C20_WitnessFatal ==
    /\ rule = "hurl_file"
    /\ buffer = GET_u \o <<"x", "\n">>
    /\ ~res.ok /\ ~res.recoverable

====
